---- MODULE Spec2Model ----
(***************************************************************************)
(* Model of loadtest/user/userentity/websocket.go: the WebSocket session   *)
(* loop of a simulated user (listen), its sequence tracker and dispatcher   *)
(* (wsEventHandler, handlePostEvent, handleReactionEvent), the backoff      *)
(* policy (getWaitTime) and the typing facade (SendTypingEvent).            *)
(***************************************************************************)
EXTENDS Integers, Sequences, FiniteSets, TLC

(***************************************************************************)
(* 64-bit integers.  time.Duration is an int64 count of nanoseconds; the   *)
(* values exceed what the model checker's integers hold, so an int64 is a   *)
(* tuple of 8 bytes, least significant first, in two's complement.          *)
(***************************************************************************)
Limbs == 1..8

Base == 256

\* The int64 holding the natural number n (n below 2^31).
FromNat(n) ==
  [i \in Limbs |-> IF i <= 4 THEN (n \div (Base ^ (i - 1))) % Base ELSE 0]

\* Sum of the byte products a[i] * b[k+1-i] for i in 1..j: column k of a * b.
RECURSIVE ColSum(_, _, _, _)
ColSum(a, b, k, j) ==
  IF j = 0 THEN 0 ELSE a[j] * b[k + 1 - j] + ColSum(a, b, k, j - 1)

\* Column k of a * b with the carry of the columns below it.
RECURSIVE ColTotal(_, _, _)
ColTotal(a, b, k) ==
  IF k = 0 THEN 0 ELSE ColSum(a, b, k, k) + (ColTotal(a, b, k - 1) \div Base)

\* a * b as Go computes it on int64: the low 64 bits of the product.
Mul64(a, b) == [k \in Limbs |-> ColTotal(a, b, k) % Base]

\* The sign bit of an int64.
IsNeg64(a) == a[8] >= 128

\* a < b on the bytes read as unsigned, from the most significant byte down.
RECURSIVE LessFrom(_, _, _)
LessFrom(a, b, i) ==
  IF i = 0 THEN FALSE
  ELSE IF a[i] # b[i] THEN a[i] < b[i]
  ELSE LessFrom(a, b, i - 1)

\* a < b on int64 (signed).
Less64(a, b) ==
  IF IsNeg64(a) # IsNeg64(b) THEN IsNeg64(a) ELSE LessFrom(a, b, 8)

Leq64(a, b) == ~Less64(b, a)

(***************************************************************************)
(* Constants of the package.                                                *)
(***************************************************************************)
\* time.Second, time.Minute in nanoseconds.
Second == FromNat(1000000000)

Minute == Mul64(FromNat(60), Second)

minWebsocketReconnectDuration == Mul64(FromNat(3), Second)

maxWebsocketReconnectDuration == Mul64(FromNat(5), Minute)

maxWebsocketFails == 7

(***************************************************************************)
(* getWaitTime: the backoff policy.  failCount is a natural number here     *)
(* (listen only ever passes a count it has incremented from 0).             *)
(***************************************************************************)
\* The product  waitTime * (Duration(failCount) * Duration(failCount)).
WaitProduct(failCount) ==
  Mul64(minWebsocketReconnectDuration,
        Mul64(FromNat(failCount), FromNat(failCount)))

getWaitTime(failCount) ==
  IF failCount > maxWebsocketFails
  THEN IF Less64(maxWebsocketReconnectDuration, WaitProduct(failCount))
       THEN maxWebsocketReconnectDuration
       ELSE WaitProduct(failCount)
  ELSE minWebsocketReconnectDuration

(***************************************************************************)
(* Bounds of the model.                                                     *)
(***************************************************************************)
\* Inbound events carry sequence numbers 0..MaxSeq-1, so wsServerSeq <= MaxSeq.
MaxSeq == 2

\* Connect failures and disconnects stop once the failure count reaches this.
MaxFailCount == 2

\* Number of goroutines calling SendTypingEvent.
NumSenders == 2

\* Capacity of the error channel handed to listen by its caller.
ErrChanCap == 1

Senders == 1..NumSenders

(***************************************************************************)
(* Inbound events and the store's answers.                                  *)
(***************************************************************************)
Nil == "nil"

PostTypes == {"posted", "post_edited", "post_deleted"}

ReactionTypes == {"reaction_added", "reaction_removed"}

EventTypes == {"hello", "typing"} \cup PostTypes \cup ReactionTypes

\* What the event's data holds under its payload key ("post" or "reaction"):
\* a string of JSON for an object, no entry, a value that is no string, a
\* string that is no JSON, or the JSON string "null".
Payloads == {"object", "missing", "notString", "badJSON", "null"}

Channels == {"c1", "c2"}

\* connection_id of a hello event: a string, or Nil when absent or no string.
ConnIDs == {"", "a", "b"}

EventSeqs == 0..(MaxSeq - 1)

\* store.CurrentChannel(): (channel, error).
CurrentChannelResults ==
  [ch : Channels, err : {Nil}]
    \cup {[ch |-> Nil, err |-> "ErrChannelNotFound"], [ch |-> Nil, err |-> "other"]}

\* store.Post(id): (post, error); post is Nil or the post's channel id.
PostResults ==
  [post : Channels, err : {Nil}]
    \cup {[post |-> Nil, err |-> "ErrPostNotFound"]}
    \cup [post : Channels \cup {Nil}, err : {"other"}]

\* One answer of the store to each call a handler can make: mutErr is the
\* error of SetPost / DeletePost / SetReaction / DeleteReaction, found the
\* boolean DeleteReaction returns.
StoreAnswers ==
  [cur : CurrentChannelResults, post : PostResults,
   mutErr : BOOLEAN, found : BOOLEAN]

\* A handler's result: err is Nil, "error" or "panic" (nil dereference);
\* op is the store mutation it performed.
Result(err, op) == [err |-> err, op |-> op]

\* Lines 29-39 and 71-81: the payload lookup, type assertion and Unmarshal.
\* Unmarshal of "null" leaves the pointer nil and returns no error.
DecodeFails(payload) == payload \in {"missing", "notString", "badJSON"}

handleReactionEvent(type, payload, st) ==
  IF DecodeFails(payload) THEN Result("error", "none")
  ELSE IF st.cur.err \notin {Nil, "ErrChannelNotFound"} THEN Result("error", "none")
  ELSE IF st.cur.ch = Nil THEN Result(Nil, "none")
  ELSE IF payload = "null" THEN Result("panic", "none")
  ELSE IF st.post.err = "ErrPostNotFound" THEN Result(Nil, "none")
  ELSE IF st.post.post = Nil THEN Result("panic", "none")
  ELSE IF st.post.post # st.cur.ch THEN Result(Nil, "none")
  ELSE IF st.post.err # Nil THEN Result("error", "none")
  ELSE IF type = "reaction_added"
       THEN Result(IF st.mutErr THEN "error" ELSE Nil, "SetReaction")
  ELSE IF st.mutErr THEN Result("error", "DeleteReaction")
  ELSE IF ~st.found THEN Result("error", "DeleteReaction")
  ELSE Result(Nil, "DeleteReaction")

\* handlePostEvent without the comparison with the current channel (line 86
\* without currentChannel.Id == post.ChannelId): every post is stored.
handlePostEvent_AnyChannel(type, payload, ch, st) ==
  IF DecodeFails(payload) THEN Result("error", "none")
  ELSE IF type \in {"posted", "post_edited"}
       THEN IF st.cur.err = Nil
            THEN IF payload = "null" THEN Result("panic", "none")
                 ELSE Result(IF st.mutErr THEN "error" ELSE Nil, "SetPost")
            ELSE IF st.cur.err # "ErrChannelNotFound" THEN Result("error", "none")
            ELSE Result(Nil, "none")
  ELSE IF payload = "null" THEN Result("panic", "none")
  ELSE Result(IF st.mutErr THEN "error" ELSE Nil, "DeletePost")

\* ch is the channel id of the decoded post.
handlePostEvent(type, payload, ch, st) ==
  IF DecodeFails(payload) THEN Result("error", "none")
  ELSE IF type \in {"posted", "post_edited"}
       THEN IF st.cur.err = Nil
            THEN IF payload = "null" THEN Result("panic", "none")
                 ELSE IF st.cur.ch = ch
                      THEN Result(IF st.mutErr THEN "error" ELSE Nil, "SetPost")
                      ELSE Result(Nil, "none")
            ELSE IF st.cur.err # "ErrChannelNotFound" THEN Result("error", "none")
            ELSE Result(Nil, "none")
  ELSE IF payload = "null" THEN Result("panic", "none")
  ELSE Result(IF st.mutErr THEN "error" ELSE Nil, "DeletePost")

\* Lines 127-134: the switch of wsEventHandler on the event type.
Dispatch(type, payload, ch, st) ==
  IF type \in ReactionTypes THEN handleReactionEvent(type, payload, st)
  ELSE IF type \in PostTypes THEN handlePostEvent(type, payload, ch, st)
  ELSE Result(Nil, "none")

\* Every result the dispatch of an event can have, over the store's answers.
DispatchResults ==
  [type \in EventTypes |-> [payload \in Payloads |-> [ch \in Channels |->
     {Dispatch(type, payload, ch, st) : st \in StoreAnswers}]]]

\* The inbound events the transport can deliver.
Events ==
  [type : {"hello"}, seq : EventSeqs, conn : ConnIDs \cup {Nil},
   payload : {"object"}, ch : {"c1"}]
    \cup [type : PostTypes, seq : EventSeqs, conn : {Nil},
          payload : Payloads, ch : Channels]
    \cup [type : ReactionTypes, seq : EventSeqs, conn : {Nil},
          payload : Payloads, ch : {"c1"}]
    \cup [type : {"typing"}, seq : EventSeqs, conn : {Nil},
          payload : {"object"}, ch : {"c1"}]

(***************************************************************************)
(* The sequence tracker in wsEventHandler.                                  *)
(***************************************************************************)
\* onHello with the test for a recorded id dropped (line 109 without
\* ue.wsConnID != ""): the first id a session sees resets the sequence too.
onHello_ResetsOnFirstID(connID, serverSeq, ev) ==
  IF ev.type = "hello" /\ ev.conn # Nil
  THEN [connID |-> ev.conn, seq |-> IF connID # ev.conn THEN 0 ELSE serverSeq]
  ELSE [connID |-> connID, seq |-> serverSeq]

\* Lines 104-116: the tracker (wsConnID, wsServerSeq) after the hello branch.
onHello(connID, serverSeq, ev) ==
  IF ev.type = "hello" /\ ev.conn # Nil
  THEN [connID |-> ev.conn,
        seq |-> IF connID # "" /\ connID # ev.conn THEN 0 ELSE serverSeq]
  ELSE [connID |-> connID, seq |-> serverSeq]

\* The sequence check letting an event ahead of the expected one through
\* (line 120 with < for !=).
seqAccepts_SkipsAhead(evSeq, serverSeq) == evSeq >= serverSeq

\* The sequence check letting an event behind the expected one through
\* (line 120 with > for !=).
seqAccepts_TakesOld(evSeq, serverSeq) == evSeq <= serverSeq

\* Line 120: the sequence check passes.
seqAccepts(evSeq, serverSeq) == evSeq = serverSeq

\* wsEventHandler advancing the sequence only when the dispatch succeeds
\* (line 125 moved after the switch of lines 127-132).
wsEventHandler_ErrKeepsSeq(connID, serverSeq, ev, res) ==
  LET t == onHello(connID, serverSeq, ev) IN
  IF ~seqAccepts(ev.seq, t.seq)
  THEN [connID |-> t.connID, seq |-> t.seq, err |-> "errSeqMismatch", op |-> "none"]
  ELSE [connID |-> t.connID,
        seq |-> IF res.err = "error" THEN t.seq ELSE ev.seq + 1,
        err |-> res.err, op |-> res.op]

\* Lines 103-135: the tracker after the handler and the error it returns:
\* "errSeqMismatch", or the dispatch result res (Nil, "error", "panic").
wsEventHandler(connID, serverSeq, ev, res) ==
  LET t == onHello(connID, serverSeq, ev) IN
  IF ~seqAccepts(ev.seq, t.seq)
  THEN [connID |-> t.connID, seq |-> t.seq, err |-> "errSeqMismatch", op |-> "none"]
  ELSE [connID |-> t.connID, seq |-> ev.seq + 1, err |-> res.err, op |-> res.op]

(***************************************************************************)
(* State.                                                                   *)
(***************************************************************************)
VARIABLES
  pc,                   \* position of the listen goroutine
  connected,            \* ue.connected
  wsClosing,            \* the channel ue.wsClosing has been closed
  wsClosed,             \* the channel ue.wsClosed has been closed
  wsConnID,             \* ue.wsConnID
  wsServerSeq,          \* ue.wsServerSeq
  connectionFailCount,  \* listen's local connectionFailCount
  waitTime,             \* duration of the timer armed by time.After, or NoTimer
  client,               \* the transport: "none", "open" or "closed"
  wsConnections,        \* this session's share of the active-connection count
  errChan,              \* number of errors queued in errChan
  lastEv,               \* the event listen holds (ev), with the handler's result
  lastPub,              \* sequence of the last event republished on this connection
  typing,               \* per sender: its SendTypingEvent call: "idle" (no call
                        \* yet), "notConnected" (returned the error), pending
                        \* (Blocked), or returned nil with the message
                        \* "drained" (dropped) or "forwarded" (to UserTyping)
  closeRaisedAt         \* where listen was when wsClosing was closed: Nil (not
                        \* closed), "select" (waiting in a select) or "elsewhere"

vars ==
  <<pc, connected, wsClosing, wsClosed, wsConnID, wsServerSeq,
    connectionFailCount, waitTime, client, wsConnections, errChan, lastEv,
    lastPub, typing, closeRaisedAt>>

\* No timer is armed.
NoTimer == <<>>

WaitPCs == {"waitConnect", "waitReconnect"}

\* listen is waiting in one of its three selects.
SelectPCs == WaitPCs \cup {"active"}

NoEvent == [type |-> Nil]

\* A sender's call is pending: it is blocked on the send to wsTyping.
\* "blockedWait" is a call made while listen was in a backoff wait.
Blocked == {"blocked", "blockedWait"}

Init ==
  /\ pc = "idle"
  /\ connected = FALSE
  /\ wsClosing = FALSE
  /\ wsClosed = FALSE
  /\ wsConnID = ""
  /\ wsServerSeq = 0
  /\ connectionFailCount = 0
  /\ waitTime = NoTimer
  /\ client = "none"
  /\ wsConnections = 0
  /\ errChan = 0
  /\ lastEv = NoEvent
  /\ lastPub = -1
  /\ typing = [s \in Senders |-> "idle"]
  /\ closeRaisedAt = Nil

(***************************************************************************)
(* The facade.  Connect and requestDisconnect are not in websocket.go; they *)
(* are modelled from the specification: Connect starts listen on a session, *)
(* requestDisconnect closes wsClosing once.                                 *)
(***************************************************************************)
Connect ==
  /\ pc = "idle"
  /\ pc' = "connect"
  /\ connected' = TRUE
  /\ UNCHANGED <<wsClosing, wsClosed, wsConnID, wsServerSeq, connectionFailCount,
                 waitTime, client, wsConnections, errChan, lastEv, lastPub,
                 typing, closeRaisedAt>>

requestDisconnect ==
  /\ pc # "panic"
  /\ connected
  /\ ~wsClosing
  /\ wsClosing' = TRUE
  /\ closeRaisedAt' = IF pc \in SelectPCs THEN "select" ELSE "elsewhere"
  /\ UNCHANGED <<pc, connected, wsClosed, wsConnID, wsServerSeq,
                 connectionFailCount, waitTime, client, wsConnections, errChan,
                 lastEv, lastPub, typing>>

\* Lines 238-247.  The call of sender s: it returns the not-connected error,
\* or blocks on the send to the unbuffered wsTyping until listen receives.
SendTypingEvent(s) ==
  /\ pc # "panic"
  /\ typing[s] \notin Blocked
  /\ typing' = [typing EXCEPT ![s] =
       IF ~connected THEN "notConnected"
       ELSE IF pc \in WaitPCs THEN "blockedWait"
       ELSE "blocked"]
  /\ UNCHANGED <<pc, connected, wsClosing, wsClosed, wsConnID, wsServerSeq,
                 connectionFailCount, waitTime, client, wsConnections, errChan,
                 lastEv, lastPub, closeRaisedAt>>

\* The send of sender s completes: SendTypingEvent returns nil.  fate says
\* what listen did with the message.
Received(s, fate) == [typing EXCEPT ![s] = fate]

(***************************************************************************)
(* listen.                                                                  *)
(***************************************************************************)
\* errChan <- err: possible while the channel has room.
ErrSend ==
  /\ errChan < ErrChanCap
  /\ errChan' = errChan + 1

\* The caller of listen receives from errChan.
ErrConsumer ==
  /\ pc # "panic"
  /\ errChan > 0
  /\ errChan' = errChan - 1
  /\ UNCHANGED <<pc, connected, wsClosing, wsClosed, wsConnID, wsServerSeq,
                 connectionFailCount, waitTime, client, wsConnections, lastEv,
                 lastPub, typing, closeRaisedAt>>

\* Lines 144-150, NewClient4 returns an error.
NewClient4Fail ==
  /\ pc = "connect"
  /\ connectionFailCount < MaxFailCount
  /\ pc' = "sendConnErr"
  /\ lastEv' = NoEvent
  /\ UNCHANGED <<connected, wsClosing, wsClosed, wsConnID, wsServerSeq,
                 connectionFailCount, waitTime, client, wsConnections, errChan,
                 lastPub, typing, closeRaisedAt>>

\* Lines 144-168, NewClient4 returns a client: incWebSocketConnections.
NewClient4Ok ==
  /\ pc = "connect"
  /\ pc' = "active"
  /\ client' = "open"
  /\ wsConnections' = wsConnections + 1
  /\ lastEv' = NoEvent
  /\ lastPub' = -1
  /\ UNCHANGED <<connected, wsClosing, wsClosed, wsConnID, wsServerSeq,
                 connectionFailCount, waitTime, errChan, typing, closeRaisedAt>>

\* Lines 151-153: the error is sent, the count incremented, the select entered
\* with its timer armed.
SendConnErr ==
  /\ pc = "sendConnErr"
  /\ ErrSend
  /\ connectionFailCount' = connectionFailCount + 1
  /\ waitTime' = getWaitTime(connectionFailCount')
  /\ pc' = "waitConnect"
  /\ UNCHANGED <<connected, wsClosing, wsClosed, wsConnID, wsServerSeq, client,
                 wsConnections, lastEv, lastPub, typing, closeRaisedAt>>

\* The typing case of a backoff select handing the message to the transport
\* as the active select does (lines 192-199 copied into the wait).
WaitTyping_Forwards(p, s) ==
  /\ pc = p
  /\ typing[s] \in Blocked
  /\ typing' = Received(s, "forwarded")
  /\ pc' = "connect"
  /\ waitTime' = NoTimer
  /\ UNCHANGED <<connected, wsClosing, wsClosed, wsConnID, wsServerSeq,
                 connectionFailCount, client, wsConnections, errChan, lastEv,
                 lastPub, closeRaisedAt>>

\* The three cases of a backoff select (lines 153-163 and 210-219), at pc p.
\* case <-ue.wsTyping: the message of a blocked sender is received and dropped.
WaitTyping(p, s) ==
  /\ pc = p
  /\ typing[s] \in Blocked
  /\ typing' = Received(s, "drained")
  /\ pc' = "connect"
  /\ waitTime' = NoTimer
  /\ UNCHANGED <<connected, wsClosing, wsClosed, wsConnID, wsServerSeq,
                 connectionFailCount, client, wsConnections, errChan, lastEv,
                 lastPub, closeRaisedAt>>

\* The return of a backoff select taken without the close signal (lines
\* 156-159 and 213-216 reached from another case).
WaitClosing_NoSignal(p) ==
  /\ pc = p
  /\ wsClosed' = TRUE
  /\ pc' = "done"
  /\ waitTime' = NoTimer
  /\ UNCHANGED <<connected, wsClosing, wsConnID, wsServerSeq,
                 connectionFailCount, client, wsConnections, errChan, lastEv,
                 lastPub, typing, closeRaisedAt>>

\* case <-ue.wsClosing: close(ue.wsClosed); return.
WaitClosing(p) ==
  /\ pc = p
  /\ wsClosing
  /\ wsClosed' = TRUE
  /\ pc' = "done"
  /\ waitTime' = NoTimer
  /\ UNCHANGED <<connected, wsClosing, wsConnID, wsServerSeq,
                 connectionFailCount, client, wsConnections, errChan, lastEv,
                 lastPub, typing, closeRaisedAt>>

\* case <-time.After(...): the timer fires.
WaitTimer(p) ==
  /\ pc = p
  /\ waitTime # NoTimer
  /\ pc' = "connect"
  /\ waitTime' = NoTimer
  /\ UNCHANGED <<connected, wsClosing, wsClosed, wsConnID, wsServerSeq,
                 connectionFailCount, client, wsConnections, errChan, lastEv,
                 lastPub, typing, closeRaisedAt>>

ConnWaitTyping(s) == WaitTyping("waitConnect", s)

ConnWaitClosing == WaitClosing("waitConnect")

ConnWaitTimer == WaitTimer("waitConnect")

ReconnWaitTyping(s) == WaitTyping("waitReconnect", s)

ReconnWaitClosing == WaitClosing("waitReconnect")

ReconnWaitTimer == WaitTimer("waitReconnect")

\* The dispatch results to consider for ev: those of its type and payload
\* when the sequence check passes, and none (the dispatch is not reached)
\* when it fails.
ResultsFor(ev) ==
  IF seqAccepts(ev.seq, onHello(wsConnID, wsServerSeq, ev).seq)
  THEN DispatchResults[ev.type][ev.payload][ev.ch]
  ELSE {Result(Nil, "none")}

\* Lines 171-184, case ev, ok := <-client.EventChannel with ok true: the
\* handler runs; on errSeqMismatch the client is closed, the connection count
\* decremented and the outer loop continued; a panic ends the process; any
\* other error goes to errChan next; otherwise the event is republished next.
RecvEvent ==
  /\ pc = "active"
  /\ \E ev \in Events : \E res \in ResultsFor(ev) :
       LET h == wsEventHandler(wsConnID, wsServerSeq, ev, res) IN
       /\ wsConnID' = h.connID
       /\ wsServerSeq' = h.seq
       /\ lastEv' = [type |-> ev.type, seq |-> ev.seq, conn |-> ev.conn,
                     err |-> h.err, op |-> h.op]
       /\ IF h.err = "errSeqMismatch"
          THEN /\ client' = "closed"
               /\ wsConnections' = wsConnections - 1
               /\ pc' = "connect"
          ELSE /\ pc' = CASE h.err = "panic" -> "panic"
                          [] h.err = "error" -> "sendHandlerErr"
                          [] OTHER -> "republish"
               /\ UNCHANGED <<client, wsConnections>>
  /\ UNCHANGED <<connected, wsClosing, wsClosed, connectionFailCount, waitTime,
                 errChan, lastPub, typing, closeRaisedAt>>

\* Line 183: errChan <- the handler's error; line 185 follows.
SendHandlerErr ==
  /\ pc = "sendHandlerErr"
  /\ ErrSend
  /\ pc' = "republish"
  /\ UNCHANGED <<connected, wsClosing, wsClosed, wsConnID, wsServerSeq,
                 connectionFailCount, waitTime, client, wsConnections, lastEv,
                 lastPub, typing, closeRaisedAt>>

\* Line 185: ue.wsEventChan <- ev.  The channel is unbuffered: the send
\* completes when the observer receives the event.
Republish ==
  /\ pc = "republish"
  /\ lastPub' = lastEv.seq
  /\ lastEv' = NoEvent
  /\ pc' = "active"
  /\ UNCHANGED <<connected, wsClosing, wsClosed, wsConnID, wsServerSeq,
                 connectionFailCount, waitTime, client, wsConnections, errChan,
                 typing, closeRaisedAt>>

\* Lines 171-175 with ok false, then 201-209: the event channel is closed;
\* the client is closed, the count decremented, the failure count incremented
\* and the backoff select entered.
EventChannelClosed ==
  /\ pc = "active"
  /\ connectionFailCount < MaxFailCount
  /\ client' = "closed"
  /\ wsConnections' = wsConnections - 1
  /\ connectionFailCount' = connectionFailCount + 1
  /\ waitTime' = getWaitTime(connectionFailCount')
  /\ pc' = "waitReconnect"
  /\ UNCHANGED <<connected, wsClosing, wsClosed, wsConnID, wsServerSeq, errChan,
                 lastEv, lastPub, typing, closeRaisedAt>>

\* The wsClosing case of the active select without the decrement (lines
\* 186-191 without decWebSocketConnections).
ActiveClosing_NoDec ==
  /\ pc = "active"
  /\ wsClosing
  /\ client' = "closed"
  /\ wsClosed' = TRUE
  /\ pc' = "done"
  /\ UNCHANGED <<connected, wsClosing, wsConnID, wsServerSeq,
                 connectionFailCount, waitTime, wsConnections, errChan, lastEv,
                 lastPub, typing, closeRaisedAt>>

\* Lines 186-191: case <-ue.wsClosing while active.
ActiveClosing ==
  /\ pc = "active"
  /\ wsClosing
  /\ client' = "closed"
  /\ wsConnections' = wsConnections - 1
  /\ wsClosed' = TRUE
  /\ pc' = "done"
  /\ UNCHANGED <<connected, wsClosing, wsConnID, wsServerSeq,
                 connectionFailCount, waitTime, errChan, lastEv, lastPub,
                 typing, closeRaisedAt>>

\* Lines 192-199: case msg, ok := <-ue.wsTyping with ok true: the message is
\* passed to client.UserTyping, whose error, if any, goes to errChan next.
\* (Nothing in the source closes wsTyping, so ok is never false.)
ActiveTyping(s) ==
  /\ pc = "active"
  /\ typing[s] \in Blocked
  /\ typing' = Received(s, "forwarded")
  /\ \E failed \in BOOLEAN : pc' = IF failed THEN "sendTypingErr" ELSE "active"
  /\ UNCHANGED <<connected, wsClosing, wsClosed, wsConnID, wsServerSeq,
                 connectionFailCount, waitTime, client, wsConnections, errChan,
                 lastEv, lastPub, closeRaisedAt>>

\* Line 198: errChan <- the error of client.UserTyping.
SendTypingErr ==
  /\ pc = "sendTypingErr"
  /\ ErrSend
  /\ pc' = "active"
  /\ UNCHANGED <<connected, wsClosing, wsClosed, wsConnID, wsServerSeq,
                 connectionFailCount, waitTime, client, wsConnections, lastEv,
                 lastPub, typing, closeRaisedAt>>

\* The steps listen takes on its own: no other party has to act.
ListenAlone ==
  \/ NewClient4Fail
  \/ NewClient4Ok
  \/ SendConnErr
  \/ SendHandlerErr
  \/ SendTypingErr
  \/ ConnWaitTimer
  \/ ReconnWaitTimer
  \/ ConnWaitClosing
  \/ ReconnWaitClosing
  \/ ActiveClosing

\* A panic of listen ends the process: no action is enabled at pc = "panic".
Next ==
  \/ Connect
  \/ requestDisconnect
  \/ \E s \in Senders : SendTypingEvent(s)
  \/ ErrConsumer
  \/ NewClient4Fail
  \/ NewClient4Ok
  \/ SendConnErr
  \/ \E s \in Senders : ConnWaitTyping(s)
  \/ ConnWaitClosing
  \/ ConnWaitTimer
  \/ RecvEvent
  \/ SendHandlerErr
  \/ Republish
  \/ EventChannelClosed
  \/ ActiveClosing
  \/ \E s \in Senders : ActiveTyping(s)
  \/ SendTypingErr
  \/ \E s \in Senders : ReconnWaitTyping(s)
  \/ ReconnWaitClosing
  \/ ReconnWaitTimer

Spec == Init /\ [][Next]_vars

(***************************************************************************)
(* Scheduling.  The listen goroutine runs whenever it can take a step on    *)
(* its own, and a select whose wsClosing case is ready again and again      *)
(* eventually takes it (Go chooses among the ready cases at random).        *)
(* LoopFairSpec assumes nothing of the other parties; FairSpec adds that    *)
(* the caller keeps receiving from errChan, the observer from wsEventChan,  *)
(* and that a pending typing message is eventually chosen by a select it is *)
(* offered to again and again.                                              *)
(***************************************************************************)
LoopFair ==
  /\ WF_vars(ListenAlone)
  /\ SF_vars(ConnWaitClosing)
  /\ SF_vars(ReconnWaitClosing)
  /\ SF_vars(ActiveClosing)

LoopFairSpec == Spec /\ LoopFair

FairSpec ==
  /\ Spec
  /\ LoopFair
  /\ WF_vars(ErrConsumer)
  /\ WF_vars(Republish)
  /\ \A s \in Senders :
       /\ SF_vars(ConnWaitTyping(s))
       /\ SF_vars(ReconnWaitTyping(s))
       /\ SF_vars(ActiveTyping(s))

(***************************************************************************)
(* getWaitTime on its own: the failure count is drawn from FailCounts and   *)
(* the function applied to it.                                              *)
(***************************************************************************)
\* Failure counts 0..MaxProbeFail are tried, and those around the count at
\* which minWebsocketReconnectDuration * failCount^2 passes 2^63.
MaxProbeFail == 60

FailCounts == (0..MaxProbeFail) \cup (55440..55455)

WaitInit ==
  /\ pc = "getWaitTime"
  /\ connectionFailCount \in FailCounts
  /\ connected = FALSE
  /\ wsClosing = FALSE
  /\ wsClosed = FALSE
  /\ wsConnID = ""
  /\ wsServerSeq = 0
  /\ waitTime = NoTimer
  /\ client = "none"
  /\ wsConnections = 0
  /\ errChan = 0
  /\ lastEv = NoEvent
  /\ lastPub = -1
  /\ typing = [s \in Senders |-> "idle"]
  /\ closeRaisedAt = Nil

GetWaitTimeCall ==
  /\ pc = "getWaitTime"
  /\ waitTime' = getWaitTime(connectionFailCount)
  /\ pc' = "returned"
  /\ UNCHANGED <<connected, wsClosing, wsClosed, wsConnID, wsServerSeq,
                 connectionFailCount, client, wsConnections, errChan, lastEv,
                 lastPub, typing, closeRaisedAt>>

WaitNext == GetWaitTimeCall

WaitSpec == WaitInit /\ [][WaitNext]_vars

(***************************************************************************)
(* The dispatch handlers on their own: an event of a post or reaction type  *)
(* and the store's answers are drawn, and the handler applied.  lastEv      *)
(* holds the handler's inputs and, once it has returned, its result.        *)
(***************************************************************************)
HandlerInputs ==
  [type : PostTypes \cup ReactionTypes, payload : Payloads, ch : Channels,
   st : StoreAnswers, err : {Nil}, op : {"none"}]

HandlerInit ==
  /\ pc = "dispatch"
  /\ lastEv \in HandlerInputs
  /\ connected = FALSE
  /\ wsClosing = FALSE
  /\ wsClosed = FALSE
  /\ wsConnID = ""
  /\ wsServerSeq = 0
  /\ connectionFailCount = 0
  /\ waitTime = NoTimer
  /\ client = "none"
  /\ wsConnections = 0
  /\ errChan = 0
  /\ lastPub = -1
  /\ typing = [s \in Senders |-> "idle"]
  /\ closeRaisedAt = Nil

\* The handler has returned res for the inputs held in lastEv.
Handled(res) ==
  /\ lastEv' = [lastEv EXCEPT !.err = res.err, !.op = res.op]
  /\ pc' = "dispatched"
  /\ UNCHANGED <<connected, wsClosing, wsClosed, wsConnID, wsServerSeq,
                 connectionFailCount, waitTime, client, wsConnections, errChan,
                 lastPub, typing, closeRaisedAt>>

HandlePostEventCall ==
  /\ pc = "dispatch"
  /\ lastEv.type \in PostTypes
  /\ Handled(handlePostEvent(lastEv.type, lastEv.payload, lastEv.ch, lastEv.st))

HandleReactionEventCall ==
  /\ pc = "dispatch"
  /\ lastEv.type \in ReactionTypes
  /\ Handled(handleReactionEvent(lastEv.type, lastEv.payload, lastEv.st))

HandlerNext == HandlePostEventCall \/ HandleReactionEventCall

HandlerSpec == HandlerInit /\ [][HandlerNext]_vars

(***************************************************************************)
(* Properties.                                                              *)
(***************************************************************************)
\* The step in which listen receives an inbound event and runs wsEventHandler
\* on it (lastEv is NoEvent whenever pc = "active").
RecvStep == pc = "active" /\ lastEv' # NoEvent

\* The handler did not return errSeqMismatch for the event just received.
AcceptedNext == lastEv'.err # "errSeqMismatch"

\* The event just received is a hello whose connection id differs from a
\* non-empty recorded one.
HelloResetNext ==
  /\ lastEv'.type = "hello"
  /\ lastEv'.conn # Nil
  /\ wsConnID # ""
  /\ wsConnID # lastEv'.conn

\* C1: once the close signal has been raised while listen waits in a select
\* (Active, or a backoff wait), listen makes no later call to NewClient4,
\* whatever else is ready in that select.
C1_NoConnectAfterClose ==
  [][closeRaisedAt = "select" => ~(NewClient4Ok \/ NewClient4Fail)]_vars

\* C2: after the close signal is raised while listen waits in a select,
\* listen closes wsClosed and returns, whether or not any other party
\* receives from errChan or from wsEventChan.  (A process ended by a panic of
\* the handler is left aside: the property is about listen while it runs.)
C2_CloseReachesClosed == (closeRaisedAt = "select") ~> (wsClosed \/ pc = "panic")

\* C3 as claimed: with wsServerSeq = n, wsEventHandler accepts an event
\* exactly when its sequence is n, and on accept sets wsServerSeq to n + 1.
C3_AcceptIffEqual ==
  [][RecvStep =>
       /\ AcceptedNext <=> (lastEv'.seq = wsServerSeq)
       /\ AcceptedNext => wsServerSeq' = wsServerSeq + 1]_vars

\* C3 as amended: the same, with n the value the sequence check reads: 0 for
\* a hello event whose connection id differs from a non-empty recorded one,
\* and wsServerSeq otherwise.  A rejected event gets errSeqMismatch.
C3_AcceptIffEqualAfterHello ==
  [][RecvStep =>
       LET n == IF HelloResetNext THEN 0 ELSE wsServerSeq IN
       /\ AcceptedNext <=> (lastEv'.seq = n)
       /\ AcceptedNext => wsServerSeq' = n + 1]_vars

\* C3 witness: an event was accepted and republished, leaving wsServerSeq one
\* past its sequence, and a later event on the connection was then rejected.
C3_Witness ==
  /\ pc = "connect"
  /\ lastEv # NoEvent
  /\ lastEv.err = "errSeqMismatch"
  /\ lastEv.type # "hello"
  /\ lastPub >= 0
  /\ wsServerSeq = lastPub + 1
  /\ lastEv.seq # wsServerSeq

\* C4: a hello event carrying connection id c leaves connectionId = c; the
\* sequence check that follows reads the old serverSequence when the recorded
\* id was empty or equal to c, and 0 when it was non-empty and different.
C4_HelloResetsOnlyOnNewID ==
  [][(RecvStep /\ lastEv'.type = "hello" /\ lastEv'.conn # Nil) =>
       LET c == lastEv'.conn
           base == IF wsConnID = "" \/ wsConnID = c THEN wsServerSeq ELSE 0
       IN /\ wsConnID' = c
          /\ wsServerSeq' = IF lastEv'.seq = base THEN base + 1 ELSE base]_vars

\* C4 witness: a hello with sequence 0 was accepted on a connection that had
\* already republished an event: the hello reset serverSequence.
C4_Witness ==
  /\ pc = "republish"
  /\ lastEv.type = "hello"
  /\ lastEv.conn = wsConnID
  /\ lastEv.seq = 0
  /\ lastPub >= 0

\* C5: getWaitTime(f) is at least the minimum and at most the maximum, and
\* does not decrease from f to f + 1 above the threshold.
C5_WaitTimeInRange ==
  pc = "returned" =>
    /\ Leq64(minWebsocketReconnectDuration, waitTime)
    /\ Leq64(waitTime, maxWebsocketReconnectDuration)
    /\ connectionFailCount > maxWebsocketFails =>
         Leq64(waitTime, getWaitTime(connectionFailCount + 1))

\* The step in which the send of line 185 completes: the event held by
\* listen is handed to the observer.
RepublishStep == pc = "republish" /\ pc' = "active"

C7_SendInWaitReturns ==
  \A s \in Senders :
    (typing[s] = "blockedWait") ~> (typing[s] \notin Blocked \/ pc = "panic")

\* C8: when listen republishes an event, it gets back to its select (to the
\* next inbound event, typing and close signals) even if the observer does
\* not receive the event.
C8_SlowObserverNoStall ==
  (pc = "republish") ~> (pc \in SelectPCs \cup {"done", "panic"})

\* C9: an event is republished only if it passed the sequence check and its
\* dispatch returned no error; an event whose dispatch failed is dropped.
C9_FailedEventNotRepublished == [][RepublishStep => lastEv.err = Nil]_vars

\* C10 as claimed: the sequence numbers of the events republished on one
\* connection are strictly increasing.
C10_RepublishedIncreasing ==
  [][(RepublishStep /\ lastPub >= 0) => lastEv.seq > lastPub]_vars

\* C10 as amended: strictly increasing, except that an accepted hello event
\* carrying a connection id may restart the numbering at 0 (it does when the
\* id differs from the recorded one).
C10_RepublishedIncreasingUpToReset ==
  [][(RepublishStep /\ lastPub >= 0) =>
       \/ lastEv.seq > lastPub
       \/ lastEv.type = "hello" /\ lastEv.conn # Nil /\ lastEv.seq = 0]_vars

\* C10 witness: after one event was republished on the connection, the next
\* event, no hello, has been accepted and is handed to the observer.
C10_Witness ==
  /\ pc = "republish"
  /\ lastPub >= 0
  /\ lastEv.type # "hello"
  /\ lastEv.seq = lastPub + 1

\* The variables a dispatch error must leave alone: the transport, the
\* active-connection count, the failure count and the tracker.
ErrorPathFrame ==
  /\ client = "open"
  /\ UNCHANGED <<client, wsConnections, connectionFailCount, wsConnID,
                 wsServerSeq, wsClosed>>

\* C11: when the dispatch of an accepted event returns an error, listen keeps
\* the transport open and the connection and failure counts as they are, has
\* serverSequence one past the failed event, sends the error to errChan as
\* its next step and is back in the select of the same connection after
\* that, where the event with the next sequence passes the sequence check.
C11_DispatchErrorNonFatal ==
  [][/\ (RecvStep /\ lastEv'.err = "error") =>
          /\ pc' = "sendHandlerErr"
          /\ client = "open"
          /\ UNCHANGED <<client, wsConnections, connectionFailCount, wsClosed>>
          /\ wsServerSeq' = lastEv'.seq + 1
     /\ (pc = "sendHandlerErr" /\ pc' # pc) =>
          /\ lastEv.err = "error"
          /\ errChan' = errChan + 1
          /\ pc' = "republish"
          /\ ErrorPathFrame
     /\ (pc = "republish" /\ lastEv.err = "error" /\ pc' # pc) =>
          /\ pc' = "active"
          /\ ErrorPathFrame
          /\ seqAccepts(lastEv.seq + 1, wsServerSeq')]_vars

\* C11 witness: the error of a failed dispatch is in errChan, the transport
\* is open and the sequence is one past the failed event.
C11_Witness ==
  /\ pc = "republish"
  /\ lastEv.err = "error"
  /\ errChan > 0
  /\ client = "open"
  /\ wsConnections = 1
  /\ wsServerSeq = lastEv.seq + 1

\* handlePostEvent has returned from a create or edit event whose payload
\* decoded to a message.
PostUpsertCase ==
  /\ pc = "dispatched"
  /\ lastEv.type \in {"posted", "post_edited"}
  /\ lastEv.payload = "object"

\* What C12 says of the cases in which no upsert is made: no mutation and no
\* error when another channel or no channel is current, no mutation and an
\* error when CurrentChannel fails otherwise.
PostIgnoredCases ==
  LET cur == lastEv.st.cur
      res == Result(lastEv.err, lastEv.op)
  IN /\ (cur.err = Nil /\ cur.ch # lastEv.ch) => res = Result(Nil, "none")
     /\ cur.err = "ErrChannelNotFound" => res = Result(Nil, "none")
     /\ cur.err = "other" => res = Result("error", "none")

\* C12 as claimed: a create or edit event makes exactly one upsert (SetPost)
\* and returns no error when the current channel is the message's channel;
\* the other cases are those of PostIgnoredCases.
C12_UpsertIffCurrentChannel ==
  PostUpsertCase =>
    /\ (lastEv.st.cur.err = Nil /\ lastEv.st.cur.ch = lastEv.ch) =>
         (lastEv.op = "SetPost" /\ lastEv.err = Nil)
    /\ PostIgnoredCases

\* C12 as amended: the same, with the upsert's own result returned: no error
\* when SetPost succeeds, its error when it fails.
C12_UpsertResultReturned ==
  PostUpsertCase =>
    /\ (lastEv.st.cur.err = Nil /\ lastEv.st.cur.ch = lastEv.ch) =>
         /\ lastEv.op = "SetPost"
         /\ lastEv.err = IF lastEv.st.mutErr THEN "error" ELSE Nil
    /\ PostIgnoredCases

\* C12 witness: an edit event for the current channel whose upsert failed.
C12_Witness ==
  /\ PostUpsertCase
  /\ lastEv.type = "post_edited"
  /\ lastEv.st.cur.ch = lastEv.ch
  /\ lastEv.op = "SetPost"
  /\ lastEv.err = "error"

\* C13: an event rejected by the sequence check (errSeqMismatch) leaves
\* wsConnID and wsServerSeq as they were before the event, a hello event
\* included.
C13_RejectLeavesTracker ==
  [][(RecvStep /\ ~AcceptedNext) => UNCHANGED <<wsConnID, wsServerSeq>>]_vars

\* C14: when the handler returns errSeqMismatch, listen closes the client,
\* decrements the connection count, increments connectionFailCount and
\* enters a backoff wait before it calls NewClient4 again.
C14_MismatchCountsAndWaits ==
  [][(RecvStep /\ ~AcceptedNext) =>
       /\ client' = "closed"
       /\ wsConnections' = wsConnections - 1
       /\ connectionFailCount' = connectionFailCount + 1
       /\ pc' \in WaitPCs
       /\ waitTime' = getWaitTime(connectionFailCount')]_vars

\* C15: connectionFailCount counts the failures since the last successful
\* connect: it is 0 once NewClient4 has returned a client, and one more
\* after each failed connect and each connection ended by its event source.
C15_CountsSinceLastConnect ==
  [][/\ NewClient4Ok => connectionFailCount' = 0
     /\ (SendConnErr \/ EventChannelClosed) =>
          connectionFailCount' = connectionFailCount + 1]_vars

\* A step taken from a backoff wait keeps to it until the timer fires or
\* wsClosing is closed: a typing message received meanwhile is dropped, and
\* the wait goes on with the same timer.
WaitKeptStep ==
  /\ pc' \notin {pc, "connect"} => (wsClosing /\ pc' = "done")
  /\ pc' = "connect" => typing' = typing
  /\ \A s \in Senders :
       (typing[s] \in Blocked /\ typing'[s] \notin Blocked) =>
         (typing'[s] = "drained" /\ pc' = pc /\ waitTime' = waitTime)

\* C16: a backoff wait is left for the next call of NewClient4 only when its
\* timer fires, or for the return when wsClosing is closed; typing messages
\* arriving during the wait are dropped without ending it.
C16_TypingDoesNotEndWait == [][(pc \in WaitPCs) => WaitKeptStep]_vars

\* The step hands NewClient4 the tracker as ConnID and ServerSequence (lines
\* 147-148): the connection attempt reads wsConnID and wsServerSeq and
\* writes neither.
SeededAttempt == (NewClient4Ok \/ NewClient4Fail) /\ UNCHANGED <<wsConnID, wsServerSeq>>

\* C17: wsConnID and wsServerSeq are changed by nothing but an inbound event
\* that is accepted: a failed connect, a disconnect, a backoff wait and a
\* sequence mismatch leave both as they are, every connection attempt is
\* made with their current values, and wsServerSeq becomes 0 only through a
\* hello event whose connection id differs from the recorded one.
C17_TrackerPersists ==
  [][/\ ~(RecvStep /\ AcceptedNext) => UNCHANGED <<wsConnID, wsServerSeq>>
     /\ pc = "connect" /\ pc' # pc => SeededAttempt
     /\ (wsServerSeq' = 0 /\ wsServerSeq # 0) =>
          (RecvStep /\ lastEv'.type = "hello" /\ lastEv'.conn # wsConnID)]_vars

\* handleReactionEvent has returned from an event whose payload decoded to a
\* reaction, with a current channel, so that store.Post was called.
PostResolved ==
  /\ pc = "dispatched"
  /\ lastEv.type \in ReactionTypes
  /\ lastEv.payload = "object"
  /\ lastEv.st.cur.err = Nil

\* C18: once handleReactionEvent has called store.Post, it returns without
\* error and without mutation when the post is unknown (ErrPostNotFound) or
\* in another channel than the current one, and returns an error, without
\* mutation, when store.Post failed otherwise, whatever post came with the
\* failure.
C18_StoreFailurePropagated ==
  PostResolved =>
    LET post == lastEv.st.post
        res == Result(lastEv.err, lastEv.op)
    IN /\ post.err = "ErrPostNotFound" => res = Result(Nil, "none")
       /\ (post.err = Nil /\ post.post # lastEv.st.cur.ch) => res = Result(Nil, "none")
       /\ post.err = "other" => res = Result("error", "none")

\* listen is in the inner loop of lines 169-205, between a successful
\* NewClient4 and the end of that connection.
InnerLoopPCs == {"active", "sendHandlerErr", "republish", "sendTypingErr"}

\* C19: this session's share of the connection count is 0 or 1; it is 1
\* exactly while the client returned by the last successful NewClient4 has
\* not been closed, which is exactly while listen is in its inner loop; it
\* is 0 once listen has returned; and NewClient4 is not called while a
\* client is open.
C19_OneCountPerOpenClient ==
  /\ wsConnections \in {0, 1}
  /\ wsConnections = 1 <=> client = "open"
  /\ pc \in InnerLoopPCs => client = "open"
  /\ (client = "open" /\ pc # "panic") => pc \in InnerLoopPCs
  /\ pc \in {"done", "idle"} => wsConnections = 0
  /\ pc \in {"connect", "sendConnErr"} \cup WaitPCs => client # "open"

\* C19 witness: a second connection is up after the first was ended by a
\* sequence mismatch, and the count is 1.
C19_Witness ==
  /\ pc = "active"
  /\ client = "open"
  /\ wsConnections = 1
  /\ lastPub = -1
  /\ wsConnID # ""
  /\ connectionFailCount = 0

\* C20: listen closes wsClosed once, in a step taken from a select with
\* wsClosing closed, and returns in that step and in no other: no failed
\* connect, disconnect, sequence mismatch or dispatch error takes it to its
\* return, and after the return it does nothing more.
C20_ReturnsOnlyOnClose ==
  [][/\ (wsClosed' /\ ~wsClosed) => (wsClosing /\ pc \in SelectPCs /\ pc' = "done")
     /\ (pc' = "done" /\ pc # "done") => (wsClosing /\ wsClosed' /\ ~wsClosed)
     /\ wsClosed => (wsClosed' /\ pc = "done")
     /\ pc = "done" => (pc' = "done" /\ wsClosed)]_vars

\* C20 witness: listen has returned with wsClosed closed after a connection
\* that was up and at least one failure.
C20_Witness ==
  /\ pc = "done"
  /\ wsClosed
  /\ wsClosing
  /\ client = "closed"
  /\ connectionFailCount > 0

====
